---- MODULE Spec2Model ----
(***************************************************************************)
(* IBM Model 2 word alignment (src/src/ibm2.py): the sparse tables t and q *)
(* of class IBM, their initialisation (with_generator / uniform), one EM   *)
(* pass (em_iter), the training loop (em_train) and the decoder            *)
(* (viterbi_alignment).                                                    *)
(*                                                                         *)
(* Probabilities are exact rationals <<n, d>> in lowest terms, d > 0.  The *)
(* log-likelihood em_iter returns is represented by its antilogarithm, the *)
(* product of the den values: math.log is strictly increasing, so the      *)
(* order of two returned values is the order of the two products.          *)
(***************************************************************************)
EXTENDS Integers, Sequences, FiniteSets, TLC

\* ------------------------------------------------------------------------
\* Bounds of the model
\* ------------------------------------------------------------------------

\* em_iter passes applied to one model over a whole run
MaxPasses == 2

\* ------------------------------------------------------------------------
\* Float arithmetic, done exactly
\* ------------------------------------------------------------------------

RECURSIVE Gcd(_, _)
Gcd(a, b) == IF b = 0 THEN a ELSE Gcd(b, a % b)

\* the float 0.0, the default of defaultdict(float)
Zero == <<0, 1>>

One == <<1, 1>>

\* 1 / float(n)
Frac(n, d) == LET g == Gcd(n, d) IN <<n \div g, d \div g>>

\* x * y
RMul(x, y) ==
    LET g1 == Gcd(x[1], y[2])
        g2 == Gcd(y[1], x[2])
    IN  IF x[1] = 0 \/ y[1] = 0 THEN Zero
        ELSE <<(x[1] \div g1) * (y[1] \div g2), (x[2] \div g2) * (y[2] \div g1)>>

\* x + y
RAdd(x, y) ==
    LET g == Gcd(x[2], y[2])
    IN  Frac(x[1] * (y[2] \div g) + y[1] * (x[2] \div g), (x[2] \div g) * y[2])

\* x / y, y nonzero
RDiv(x, y) == RMul(x, <<y[2], y[1]>>)

\* a/b < c/d for a, c >= 0 and b, d > 0, by continued fractions
RECURSIVE FracLess(_, _, _, _)
FracLess(a, b, c, d) ==
    IF (a \div b) # (c \div d) THEN (a \div b) < (c \div d)
    ELSE IF c % d = 0 THEN FALSE
    ELSE IF a % b = 0 THEN TRUE
    ELSE FracLess(d, c % d, b, a % b)

\* x > y
RGreater(x, y) == FracLess(y[1], y[2], x[1], x[2])

\* x >= y
RGeq(x, y) == ~FracLess(x[1], x[2], y[1], y[2])

\* ------------------------------------------------------------------------
\* Sentences, corpora and the tables
\* ------------------------------------------------------------------------

\* the sentinel None that is prepended to every target sentence
None == "None"

\* e = [None] + e
Augment(e) == <<None>> \o e

\* defaultdict(float).__getitem__ as a value: a missing key reads 0.0
Lookup(tab, key) == IF key \in DOMAIN tab THEN tab[key] ELSE Zero

\* Touch with a default of 1.0 in place of 0.0
Touch_one(tab, keys) ==
    [key \in DOMAIN tab \cup keys |-> IF key \in DOMAIN tab THEN tab[key] ELSE One]

\* defaultdict(float).__getitem__ as an effect: a missing key is stored as 0.0
Touch(tab, keys) ==
    [key \in DOMAIN tab \cup keys |-> IF key \in DOMAIN tab THEN tab[key] ELSE Zero]

\* the empty dict
EmptyTable == [key \in {} |-> Zero]

\* an enumeration of a finite set, the iteration order of a Python set
RECURSIVE SetToSeq(_)
SetToSeq(S) ==
    IF S = {} THEN <<>>
    ELSE LET x == CHOOSE x \in S : TRUE IN <<x>> \o SetToSeq(S \ {x})

\* ------------------------------------------------------------------------
\* Initialisation
\* ------------------------------------------------------------------------

\* uniform_g with the integer division 1 / n
uniform_g_intdiv == [n \in Nat \ {0} |-> [k \in 1..n |-> Frac(1 \div n, 1)]]

\* lambda n: [1 / float(n)] * n
uniform_g == [n \in Nat \ {0} |-> [k \in 1..n |-> Frac(1, n)]]

\* lens: the (len(e)+1, len(f)+1) of every sentence pair
lens(corpus) ==
    {<<Len(corpus[k][2]) + 1, Len(corpus[k][1]) + 1>> : k \in 1..Len(corpus)}

\* aligns, flattened: the pairs (f, e) of product(f, [None] + e) of every
\* sentence pair
aligns(corpus) ==
    UNION {{<<corpus[k][1][a], Augment(corpus[k][2])[b]>> :
                a \in 1..Len(corpus[k][1]), b \in 1..Len(corpus[k][2]) + 1} :
           k \in 1..Len(corpus)}

\* aligns[e]
aligns_to_e(corpus, e) == {p \in aligns(corpus) : p[2] = e}

\* the distortion keys seeded by the third loop of with_generator
distortion_keys(corpus) ==
    UNION {{<<j, i, lm[1], lm[2]>> : j \in 0..lm[1] - 1, i \in 1..lm[2] - 1} :
           lm \in lens(corpus)}

\* with_generator(corpus, g): p_values = g(n) is zipped with the pairs of
\* aligns[e], and q[(j, i, l, m)] = g(l)[j]
with_generator(corpus, g) ==
    [t |-> [key \in aligns(corpus) |->
                LET al == SetToSeq(aligns_to_e(corpus, key[2]))
                    n  == CHOOSE n \in 1..Len(al) : al[n] = key
                IN  g[Len(al)][n]],
     q |-> [key \in distortion_keys(corpus) |-> g[key[3]][key[1] + 1]]]

\* uniform(corpus)
uniform(corpus) == with_generator(corpus, uniform_g)

\* ------------------------------------------------------------------------
\* One EM pass
\* ------------------------------------------------------------------------

\* the loop nest "for k, (f, e) in enumerate(corpus): for i in range(1, m)",
\* as the sequence of its iterations <<k, i>> (k counted from 1)
RECURSIVE Positions(_, _)
Positions(corpus, k) ==
    IF k > Len(corpus) THEN <<>>
    ELSE [i \in 1..Len(corpus[k][1]) |-> <<k, i>>] \o Positions(corpus, k + 1)

\* c[key] += delta on a defaultdict(float)
Bump(c, key, delta) ==
    IF key \in DOMAIN c THEN [c EXCEPT ![key] = RAdd(@, delta)]
    ELSE c @@ (key :> delta)

\* sum(num)
RECURSIVE Sum(_, _)
Sum(num, n) == IF n = 0 THEN Zero ELSE RAdd(Sum(num, n - 1), num[n])

\* num = [q[(j, i, l, m)] * t[(f[i - 1], e[j])] for j in range(0, l)]
\* (num[j + 1] here is num[j] there)
num_of(t, q, f, e, i) ==
    LET l == Len(e) + 1
        m == Len(f) + 1
    IN  [n \in 1..l |->
            RMul(Lookup(q, <<n - 1, i, l, m>>), Lookup(t, <<f[i], Augment(e)[n]>>))]

\* the four "+= delta" of the loop "for j in range(0, l)", from j on
RECURSIVE AddDeltas(_, _, _, _, _, _)
AddDeltas(c, f, e, i, num, j) ==
    LET l == Len(e) + 1
        m == Len(f) + 1
        den == Sum(num, l)
        delta == RDiv(num[j + 1], den)
    IN  IF j >= l THEN c
        ELSE AddDeltas([c EXCEPT
                          !.c1 = Bump(@, <<f[i], Augment(e)[j + 1]>>, delta),
                          !.c2 = Bump(@, <<Augment(e)[j + 1]>>, delta),
                          !.c3 = Bump(@, <<j, i, l, m>>, delta),
                          !.c4 = Bump(@, <<i, l, m>>, delta)],
                       f, e, i, num, j + 1)

\* the model's keys read at iteration <<k, i>>
t_read(corpus, p) ==
    {<<corpus[p[1]][1][p[2]], Augment(corpus[p[1]][2])[n]>> :
        n \in 1..Len(corpus[p[1]][2]) + 1}

q_read(corpus, p) ==
    {<<j, p[2], Len(corpus[p[1]][2]) + 1, Len(corpus[p[1]][1]) + 1>> :
        j \in 0..Len(corpus[p[1]][2])}

\* The E-step from iteration n of Positions on.  math.log(den) raises
\* ValueError("math domain error") when den is 0.0: the pass stops there,
\* raised = k being the sentence pair it was working on.
RECURSIVE EStep(_, _, _, _, _)
EStep(t, q, corpus, c, n) ==
    LET pos == Positions(corpus, 1)
        f   == corpus[pos[n][1]][1]
        e   == corpus[pos[n][1]][2]
        i   == pos[n][2]
        num == num_of(t, q, f, e, i)
        den == Sum(num, Len(e) + 1)
        rd  == [c EXCEPT !.t_keys = @ \cup t_read(corpus, pos[n]),
                         !.q_keys = @ \cup q_read(corpus, pos[n])]
    IN  IF n > Len(pos) THEN c
        ELSE IF den = Zero THEN [rd EXCEPT !.raised = pos[n][1]]
        ELSE EStep(t, q, corpus,
                   AddDeltas([rd EXCEPT !.likelihood = RMul(@, den)], f, e, i, num, 0),
                   n + 1)

\* likelihood = 0.0 and the four empty defaultdict(float)
NoCounts ==
    [c1 |-> EmptyTable, c2 |-> EmptyTable, c3 |-> EmptyTable, c4 |-> EmptyTable,
     likelihood |-> One, t_keys |-> {}, q_keys |-> {}, raised |-> 0]

\* MStepT normalising over the target words of each source word: v divided by
\* the sum of c1 over the keys with the same k[0]
MStepT_by_source(c1, c2) ==
    [key \in {key \in DOMAIN c1 : RGreater(c1[key], Zero)} |->
        RDiv(c1[key],
             LET ks == SetToSeq({k2 \in DOMAIN c1 : k2[1] = key[1]})
             IN  Sum([n \in 1..Len(ks) |-> c1[ks[n]]], Len(ks)))]

\* MStepT without the division by c2
MStepT_raw(c1, c2) ==
    [key \in {key \in DOMAIN c1 : RGreater(c1[key], Zero)} |-> c1[key]]

\* {k: v / c2[k[1:]] for k, v in c1.items() if v > 0.0}
MStepT(c1, c2) ==
    [key \in {key \in DOMAIN c1 : RGreater(c1[key], Zero)} |->
        RDiv(c1[key], c2[<<key[2]>>])]

\* MStepQ storing the value of (j, i, l, m) under (i, j, l, m)
MStepQ_swapped(c3, c4) ==
    [key \in {<<k2[2], k2[1], k2[3], k2[4]>> :
                 k2 \in {k3 \in DOMAIN c3 : RGreater(c3[k3], Zero)}} |->
        RDiv(c3[<<key[2], key[1], key[3], key[4]>>], c4[<<key[1], key[3], key[4]>>])]

\* {k: v / c4[k[1:]] for k, v in c3.items() if v > 0.0}
MStepQ(c3, c4) ==
    [key \in {key \in DOMAIN c3 : RGreater(c3[key], Zero)} |->
        RDiv(c3[key], c4[<<key[2], key[3], key[4]>>])]

\* em_iter updating self.t and self.q with the new entries in place of
\* replacing them
em_iter_update(t, q, corpus) ==
    LET c  == EStep(t, q, corpus, NoCounts, 1)
        nt == MStepT(c.c1, c.c2)
        nq == MStepQ(c.c3, c.c4)
    IN  IF c.raised # 0
        THEN [t |-> Touch(t, c.t_keys), q |-> Touch(q, c.q_keys),
              likelihood |-> Zero, raised |-> c.raised]
        ELSE [t |-> [key \in DOMAIN nt \cup DOMAIN t |->
                        IF key \in DOMAIN nt THEN nt[key] ELSE t[key]],
              q |-> [key \in DOMAIN nq \cup DOMAIN q |->
                        IF key \in DOMAIN nq THEN nq[key] ELSE q[key]],
              likelihood |-> c.likelihood, raised |-> 0]

\* em_iter(corpus) on the tables t and q: the tables it leaves, the
\* likelihood it returns, and raised = 0 or the index of the sentence pair
\* the loop was at when math.log raised (the exception does not carry it).
\* A pass that raises has stored 0.0 under the missing keys it read.
em_iter(t, q, corpus) ==
    LET c == EStep(t, q, corpus, NoCounts, 1)
    IN  IF c.raised # 0
        THEN [t |-> Touch(t, c.t_keys), q |-> Touch(q, c.q_keys),
              likelihood |-> Zero, raised |-> c.raised]
        ELSE [t |-> MStepT(c.c1, c.c2), q |-> MStepQ(c.c3, c.c4),
              likelihood |-> c.likelihood, raised |-> 0]

\* in_range for range(s, n+s+1)
in_range_inclusive(k, n, s) == k <= n + s

\* "for k in range(s, n+s)": whether k is still inside the range
in_range(k, n, s) == k < n + s

\* ------------------------------------------------------------------------
\* Decoding
\* ------------------------------------------------------------------------

\* MaxByKey replacing the best element also on an equal key
RECURSIVE MaxByKey_last(_, _)
MaxByKey_last(xs, n) ==
    IF n = 1 THEN xs[1]
    ELSE LET best == MaxByKey_last(xs, n - 1)
         IN  IF RGeq(xs[n][2], best[2]) THEN xs[n] ELSE best

\* max(possible_alignments, key=lambda x: x[1]) over the first n elements:
\* a later element replaces the best one only when its key is greater
RECURSIVE MaxByKey(_, _)
MaxByKey(xs, n) ==
    IF n = 1 THEN xs[1]
    ELSE LET best == MaxByKey(xs, n - 1)
         IN  IF RGreater(xs[n][2], best[2]) THEN xs[n] ELSE best

\* maximum_alignment(i)
maximum_alignment(t, q, f, e, i) ==
    LET l == Len(e) + 1
        m == Len(f) + 1
        possible_alignments ==
            [n \in 1..l |->
                <<n - 1, RMul(Lookup(t, <<f[i], Augment(e)[n]>>),
                              Lookup(q, <<n - 1, i, l, m>>))>>]
    IN  MaxByKey(possible_alignments, l)[1]

\* viterbi_alignment(f, e)
viterbi_alignment(t, q, f, e) ==
    [i \in 1..Len(f) |-> maximum_alignment(t, q, f, e, i)]

\* the keys viterbi_alignment(f, e) reads in self.t and in self.q
viterbi_t_keys(f, e) ==
    {<<f[i], Augment(e)[n]>> : i \in 1..Len(f), n \in 1..Len(e) + 1}

viterbi_q_keys(f, e) ==
    {<<j, i, Len(e) + 1, Len(f) + 1>> : j \in 0..Len(e), i \in 1..Len(f)}

\* ------------------------------------------------------------------------
\* Inputs
\* ------------------------------------------------------------------------

LaMaison == <<"la", "maison">>
TheHouse == <<"the", "house">>

C_none   == <<>>
C_pair   == << <<LaMaison, TheHouse>> >>
C_two    == << <<LaMaison, TheHouse>>, << <<"la">>, <<"the">> >> >>
C_chat   == << <<LaMaison, <<"the", "chat">> >> >>
C_empty  == << << <<>>, <<"the">> >>, <<LaMaison, <<>> >> >>

Corpora == {C_none, C_pair, C_two, C_chat, C_empty}

\* the sentence pairs given to viterbi_alignment
Pairs ==
    {<<LaMaison, TheHouse>>, << <<"la">>, <<"the">> >>, << <<>>, <<"the">> >>}

\* the arguments n and s of em_train
TrainN == -1..MaxPasses
TrainS == {3}

\* ------------------------------------------------------------------------
\* The model object and its callers
\* ------------------------------------------------------------------------

VARIABLES
    t,          \* self.t
    q,          \* self.q
    pc,         \* "idle", or "em_train" inside the loop of em_train
    k,          \* the loop variable of em_train
    op,         \* the call in progress, or the last one made
    likelihood, \* the likelihood the last call returned, <<>> if none
    alignment,  \* the alignment the last call returned, <<>> if none
    err,        \* the exception the last call raised
    passnums,   \* the passnum of every em_iter the last call ran
    seed,       \* history: the corpus the model was initialised on
    pre,        \* history: self.t and self.q when em_train was entered
    iters       \* history: corpus and likelihood of every pass that returned

vars == <<t, q, pc, k, op, likelihood, alignment, err, passnums, seed, pre, iters>>

NoError == [type |-> "none", message |-> "", names |-> {}]

\* what math.log(0.0) raises; names is the set of sentence pairs its message
\* mentions
MathDomainError == [type |-> "ValueError", message |-> "math domain error", names |-> {}]

NoTables == [t |-> EmptyTable, q |-> EmptyTable]

Call(name, corpus, n, s, f, e) ==
    [name |-> name, corpus |-> corpus, n |-> n, s |-> s, f |-> f, e |-> e]

Init ==
    \E corpus \in Corpora :
        /\ t = uniform(corpus).t
        /\ q = uniform(corpus).q
        /\ pc = "idle"
        /\ k = 0
        /\ op = Call("uniform", corpus, 0, 0, <<>>, <<>>)
        /\ likelihood = <<>>
        /\ alignment = <<>>
        /\ err = NoError
        /\ passnums = <<>>
        /\ seed = corpus
        /\ pre = NoTables
        /\ iters = <<>>

\* model.em_iter(corpus)
EmIter(corpus) ==
    /\ pc = "idle"
    /\ Len(iters) < MaxPasses
    /\ op' = Call("em_iter", corpus, 0, 0, <<>>, <<>>)
    /\ pre' = NoTables
    /\ LET r == em_iter(t, q, corpus)
       IN  /\ t' = r.t
           /\ q' = r.q
           /\ IF r.raised = 0
              THEN /\ likelihood' = r.likelihood
                   /\ err' = NoError
                   /\ iters' = Append(iters, [corpus |-> corpus, likelihood |-> r.likelihood])
              ELSE /\ likelihood' = <<>>
                   /\ err' = MathDomainError
                   /\ iters' = iters
    /\ passnums' = <<1>>
    /\ alignment' = <<>>
    /\ UNCHANGED <<pc, k, seed>>

\* model.em_train(corpus, n, s): entering the loop "for k in range(s, n+s)"
EmTrain(corpus, n, s) ==
    /\ pc = "idle"
    /\ Len(iters) + (IF n > 0 THEN n ELSE 0) <= MaxPasses
    /\ pc' = "em_train"
    /\ k' = s
    /\ op' = Call("em_train", corpus, n, s, <<>>, <<>>)
    /\ pre' = [t |-> t, q |-> q]
    /\ passnums' = <<>>
    /\ err' = NoError
    /\ likelihood' = <<>>
    /\ alignment' = <<>>
    /\ UNCHANGED <<t, q, seed, iters>>

\* one iteration of the loop of em_train: self.em_iter(corpus, passnum=k)
EmTrainPass ==
    /\ pc = "em_train"
    /\ in_range(k, op.n, op.s)
    /\ LET r == em_iter(t, q, op.corpus)
       IN  /\ t' = r.t
           /\ q' = r.q
           /\ passnums' = Append(passnums, k)
           /\ IF r.raised = 0
              THEN /\ err' = NoError
                   /\ iters' = Append(iters, [corpus |-> op.corpus, likelihood |-> r.likelihood])
                   /\ k' = k + 1
                   /\ pc' = "em_train"
              ELSE /\ err' = MathDomainError
                   /\ iters' = iters
                   /\ k' = 0
                   /\ pc' = "idle"
    /\ UNCHANGED <<op, likelihood, alignment, seed, pre>>

\* the loop of em_train is exhausted: em_train returns
EmTrainReturn ==
    /\ pc = "em_train"
    /\ ~in_range(k, op.n, op.s)
    /\ pc' = "idle"
    /\ k' = 0
    /\ UNCHANGED <<t, q, op, likelihood, alignment, err, passnums, seed, pre, iters>>

\* model.viterbi_alignment(f, e)
Viterbi(f, e) ==
    /\ pc = "idle"
    /\ op' = Call("viterbi_alignment", <<>>, 0, 0, f, e)
    /\ pre' = NoTables
    /\ alignment' = viterbi_alignment(t, q, f, e)
    /\ t' = Touch(t, viterbi_t_keys(f, e))
    /\ q' = Touch(q, viterbi_q_keys(f, e))
    /\ err' = NoError
    /\ passnums' = <<>>
    /\ likelihood' = <<>>
    /\ UNCHANGED <<pc, k, seed, iters>>

Next ==
    \/ \E corpus \in Corpora : EmIter(corpus)
    \/ \E corpus \in Corpora, n \in TrainN, s \in TrainS : EmTrain(corpus, n, s)
    \/ EmTrainPass
    \/ EmTrainReturn
    \/ \E p \in Pairs : Viterbi(p[1], p[2])

Spec == Init /\ [][Next]_vars

\* ------------------------------------------------------------------------
\* Properties
\* ------------------------------------------------------------------------

\* the sum of the values a table holds under a set of keys
TotalOver(tab, keys) ==
    LET ks == SetToSeq(keys)
    IN  Sum([n \in 1..Len(ks) |-> Lookup(tab, ks[n])], Len(ks))

\* every pass that has returned so far ran on the corpus the model was
\* initialised on
TrainedOnSeed == \A n \in 1..Len(iters) : iters[n].corpus = seed

\* the step is a call of em_iter on corpus, directly or from em_train
PassOn(corpus) ==
    /\ corpus = op'.corpus
    /\ \/ op'.name = "em_iter"
       \/ pc = "em_train" /\ Len(passnums') = Len(passnums) + 1

\* the step is a pass that returned
PassReturned == Len(iters') = Len(iters) + 1

\* C1: of two successive passes of em_iter on the same corpus, the later one
\* never returns a smaller likelihood than the earlier one.
C1_MonotonicLikelihood ==
    \A n \in 1..Len(iters) - 1 :
        iters[n].corpus = iters[n + 1].corpus
            => RGeq(iters[n + 1].likelihood, iters[n].likelihood)

\* two passes on the corpus the model was initialised on, the second with a
\* strictly greater likelihood
C1_Witness ==
    /\ Len(iters) >= 2
    /\ iters[1].corpus = seed
    /\ iters[2].corpus = seed
    /\ RGreater(iters[2].likelihood, iters[1].likelihood)

\* for every e_word with a key in tt the values under (., e_word) sum to 1,
\* and for every (i, l, m) with a key in qq the values under (j, i, l, m),
\* j in [0, l), sum to 1
Normalised(tt, qq) ==
    /\ \A w \in {key[2] : key \in DOMAIN tt} :
          TotalOver(tt, {key \in DOMAIN tt : key[2] = w}) = One
    /\ \A c \in {<<key[2], key[3], key[4]>> : key \in DOMAIN qq} :
          TotalOver(qq, {<<j, c[1], c[2], c[3]>> : j \in 0..c[2] - 1}) = One

\* C2: the tables a pass of em_iter leaves are normalised over the keys they
\* hold, whatever model the pass started from (so also from a model
\* initialised on the same corpus) and whatever entries the M-step dropped.
C2_MStepNormalised == [][PassReturned => Normalised(t', q')]_vars

\* a pass on the seed corpus has returned, and so has a pass whose M-step
\* dropped a key it had counted (the word "chat" is new to the model)
C2_Witness ==
    /\ Len(iters) = 2
    /\ iters[1].corpus = seed
    /\ iters[2].corpus = C_chat
    /\ seed = C_two
    /\ op.name = "em_iter"
    /\ err = NoError
    /\ <<"la", "chat">> \notin DOMAIN t
    /\ <<2, 1, 3, 3>> \notin DOMAIN q

\* the words of the augmented target sentences of the pairs ks of a corpus
TargetWords(corpus, ks) ==
    UNION {{Augment(corpus[n][2])[b] : b \in 1..Len(corpus[n][2]) + 1} : n \in ks}

\* the values of tt under (., w) sum to 1
SumsToOne(tt, w) == TotalOver(tt, {key \in DOMAIN tt : key[2] = w}) = One

\* for every (l, m) of a pair of the corpus and every i in [1, m), the values
\* of qq under (j, i, l, m), j in [0, l), sum to 1
DistortionSumsToOne(qq, corpus) ==
    \A lm \in lens(corpus) : \A i \in 1..lm[2] - 1 :
        TotalOver(qq, {<<j, i, lm[1], lm[2]>> : j \in 0..lm[1] - 1}) = One

\* the state is the one uniform(seed) returned
JustInitialised == op.name = "uniform"

\* C3 as stated: after uniform(corpus), t sums to 1 under every word of every
\* augmented target sentence, and q under every (i, l, m) of the corpus.
C3_AsStated ==
    JustInitialised =>
        /\ \A w \in TargetWords(seed, 1..Len(seed)) : SumsToOne(t, w)
        /\ DistortionSumsToOne(q, seed)

\* C3, amended: after uniform(corpus), t sums to 1 under every word of the
\* augmented target sentence of every pair whose source sentence is not
\* empty (a word that only occurs opposite empty source sentences has no
\* entry at all), and q sums to 1 under every (i, l, m) of the corpus.
C3_InitNormalised ==
    JustInitialised =>
        /\ \A w \in TargetWords(seed, {n \in 1..Len(seed) : seed[n][1] # <<>>}) :
              SumsToOne(t, w)
        /\ \A w \in TargetWords(seed, 1..Len(seed)) :
              SumsToOne(t, w) \/ \A key \in DOMAIN t : key[2] # w
        /\ DistortionSumsToOne(q, seed)

\* a model fresh from uniform on a corpus with an empty source sentence
\* opposite "the" and a two-word source sentence opposite None
C3_Witness ==
    /\ JustInitialised
    /\ seed = C_empty
    /\ t[<<"la", None>>] = Frac(1, 2)
    /\ q[<<0, 2, 1, 3>>] = One

\* the score of candidate j for position i: a missing key scores 0.0
Score(f, e, i, j) ==
    RMul(Lookup(t, <<f[i], Augment(e)[j + 1]>>),
         Lookup(q, <<j, i, Len(e) + 1, Len(f) + 1>>))

\* j is the smallest index in [0, l) that attains the maximum score
FirstArgmax(f, e, i, j) ==
    /\ j \in 0..Len(e)
    /\ \A j2 \in 0..Len(e) : RGeq(Score(f, e, i, j), Score(f, e, i, j2))
    /\ \A j2 \in 0..j - 1 : RGreater(Score(f, e, i, j), Score(f, e, i, j2))

\* C4: viterbi_alignment(f, e) raises nothing and returns len(f) indices, the
\* one for position i being the smallest j of maximal score (0 when every
\* candidate scores 0.0); calling it again returns the same sequence.
C4_ViterbiFirstArgmax ==
    op.name = "viterbi_alignment" =>
        /\ err = NoError
        /\ Len(alignment) = Len(op.f)
        /\ \A i \in 1..Len(op.f) :
              /\ FirstArgmax(op.f, op.e, i, alignment[i])
              /\ (\A j \in 0..Len(op.e) : Score(op.f, op.e, i, j) = Zero)
                    => alignment[i] = 0
        /\ viterbi_alignment(t, q, op.f, op.e) = alignment

\* a decoding after training: NULL and "the" tie for "la" and the first of
\* them is returned, "house" is the strict maximum for "maison"
C4_Witness ==
    /\ op.name = "viterbi_alignment"
    /\ op.f = LaMaison
    /\ op.e = TheHouse
    /\ Len(iters) >= 1
    /\ Score(LaMaison, TheHouse, 1, 0) = Score(LaMaison, TheHouse, 1, 1)
    /\ alignment = <<0, 2>>

\* the model was initialised on the one-pair corpus and every pass so far
\* ran on it
OnePairScenario == seed = C_pair /\ TrainedOnSeed

\* C5 as stated: on the one-pair corpus, one pass raises t[("la", "the")] and
\* t[("maison", "house")] above their uniform values, and after a few passes
\* the pair decodes to [1, 2].
C5_AsStated ==
    OnePairScenario =>
        /\ Len(iters) = 1 =>
              /\ RGreater(Lookup(t, <<"la", "the">>), uniform(C_pair).t[<<"la", "the">>])
              /\ RGreater(Lookup(t, <<"maison", "house">>),
                          uniform(C_pair).t[<<"maison", "house">>])
        /\ (Len(iters) >= 2 /\ op.name = "viterbi_alignment"
                /\ op.f = LaMaison /\ op.e = TheHouse)
              => alignment = <<1, 2>>

\* C5, amended: on the one-pair corpus the uniform model is a fixed point of
\* em_iter: after any number of passes t[("la", "the")] and
\* t[("maison", "house")] still equal their uniform value 1/2, every
\* candidate ties, and the pair decodes to [0, 0].
C5_UniformFixedPoint ==
    OnePairScenario =>
        /\ Lookup(t, <<"la", "the">>) = uniform(C_pair).t[<<"la", "the">>]
        /\ Lookup(t, <<"maison", "house">>) = uniform(C_pair).t[<<"maison", "house">>]
        /\ Lookup(t, <<"la", "the">>) = Frac(1, 2)
        /\ (op.name = "viterbi_alignment" /\ op.f = LaMaison /\ op.e = TheHouse)
              => alignment = <<0, 0>>

\* the pair decoded after two passes on the one-pair corpus
C5_Witness ==
    /\ OnePairScenario
    /\ Len(iters) >= 2
    /\ op.name = "viterbi_alignment"
    /\ op.f = LaMaison
    /\ op.e = TheHouse
    /\ alignment = <<0, 0>>

\* the pass labels s, s+1, ..., s+n-1 (none when n <= 0)
Labels(n, s) == [j \in 1..(IF n > 0 THEN n ELSE 0) |-> s + j - 1]

\* n successive direct calls of em_iter(corpus) on the tables tt and qq; a
\* call that raises is the last one
RECURSIVE Passes(_, _, _, _)
Passes(tt, qq, corpus, n) ==
    IF n <= 0 THEN [t |-> tt, q |-> qq, raised |-> 0]
    ELSE LET r == em_iter(tt, qq, corpus)
         IN  IF r.raised # 0 THEN [t |-> r.t, q |-> r.q, raised |-> r.raised]
             ELSE Passes(r.t, r.q, corpus, n - 1)

\* em_train has returned or raised
EmTrainDone == op.name = "em_train" /\ pc = "idle"

\* C6 as stated: em_train(corpus, n, s) runs em_iter exactly n times (zero
\* times when n <= 0) with the labels s, ..., s+n-1 in this order, and leaves
\* the model that n successive direct calls of em_iter(corpus) leave.
C6_AsStated ==
    EmTrainDone =>
        /\ passnums = Labels(op.n, op.s)
        /\ t = Passes(pre.t, pre.q, op.corpus, op.n).t
        /\ q = Passes(pre.t, pre.q, op.corpus, op.n).q

\* C6, amended: em_train(corpus, n, s) calls em_iter one after the other on
\* the same model with the labels s, s+1, ... in increasing order; it makes
\* exactly n calls (none when n <= 0) unless a call raises, and then that
\* call is its last one and em_train ends with the error.  Either way the
\* model it leaves is the one the same successive direct calls of
\* em_iter(corpus) leave, whatever s is.
C6_EmTrainSequential ==
    EmTrainDone =>
        /\ Len(passnums) <= Len(Labels(op.n, op.s))
        /\ passnums = SubSeq(Labels(op.n, op.s), 1, Len(passnums))
        /\ t = Passes(pre.t, pre.q, op.corpus, op.n).t
        /\ q = Passes(pre.t, pre.q, op.corpus, op.n).q
        /\ err = NoError =>
              /\ passnums = Labels(op.n, op.s)
              /\ Passes(pre.t, pre.q, op.corpus, op.n).raised = 0
        /\ err # NoError =>
              /\ passnums # <<>>
              /\ Passes(pre.t, pre.q, op.corpus, Len(passnums) - 1).raised = 0
              /\ Passes(pre.t, pre.q, op.corpus, Len(passnums)).raised # 0

\* em_train(C_two, 2, 3) has returned on a model initialised on C_two
C6_Witness ==
    /\ EmTrainDone
    /\ seed = C_two
    /\ op.corpus = C_two
    /\ op.n = 2
    /\ op.s = 3
    /\ err = NoError
    /\ passnums = <<3, 4>>
    /\ Len(iters) = 2

\* two tables answer every lookup alike
SameLookups(a, b) == \A key \in DOMAIN a \cup DOMAIN b : Lookup(a, key) = Lookup(b, key)

\* C7: a pass of em_iter that meets den = 0 returns no likelihood and applies
\* no M-step: it ends in an error that names the sentence pair it was at, and
\* every lookup in t and q answers as before the call.
C7_ZeroDenNamedError ==
    [][\A corpus \in Corpora :
          (PassOn(corpus) /\ em_iter(t, q, corpus).raised # 0) =>
              /\ err' # NoError
              /\ likelihood' = <<>>
              /\ iters' = iters
              /\ SameLookups(t', t)
              /\ SameLookups(q', q)
              /\ em_iter(t, q, corpus).raised \in err'.names]_vars

\* C8: while every pass ran on the corpus the model was initialised on, every
\* key the E-step reads for that corpus holds a strictly positive value, and
\* so every term num[j] of den is strictly positive at every position of
\* every sentence pair: den > 0.
C8_PositivityPreserved ==
    TrainedOnSeed =>
        \A n \in 1..Len(Positions(seed, 1)) :
            LET p   == Positions(seed, 1)[n]
                num == num_of(t, q, seed[p[1]][1], seed[p[1]][2], p[2])
            IN  /\ \A key \in t_read(seed, p) : RGreater(Lookup(t, key), Zero)
                /\ \A key \in q_read(seed, p) : RGreater(Lookup(q, key), Zero)
                /\ \A j \in DOMAIN num : RGreater(num[j], Zero)

\* two passes on the corpus of initialisation, which moved t[("la", "house")]
\* below its uniform value
C8_Witness ==
    /\ seed = C_two
    /\ TrainedOnSeed
    /\ Len(iters) >= 2
    /\ RGreater(uniform(C_two).t[<<"la", "house">>], Lookup(t, <<"la", "house">>))

\* C9: a pass of em_iter(corpus) that returns leaves in t only pairs that
\* co-occur in a sentence pair of corpus and in q only keys (j, i, l, m) of
\* the sentence lengths of corpus; every other key the model held before
\* looks up as 0.0, and on the empty corpus both tables end up empty.
C9_TablesReplaced ==
    [][\A corpus \in Corpora :
          (PassOn(corpus) /\ PassReturned) =>
              /\ DOMAIN t' \subseteq aligns(corpus)
              /\ DOMAIN q' \subseteq distortion_keys(corpus)
              /\ \A key \in DOMAIN t \ aligns(corpus) : Lookup(t', key) = Zero
              /\ \A key \in DOMAIN q \ distortion_keys(corpus) : Lookup(q', key) = Zero
              /\ corpus = <<>> => (t' = EmptyTable /\ q' = EmptyTable)]_vars

\* the first pass on a model whose initialisation gave it positive entries
\* for sentence lengths the pass's corpus does not have
C9_Witness ==
    /\ op.name = "em_iter"
    /\ err = NoError
    /\ Len(iters) = 1
    /\ seed = C_two
    /\ op.corpus = C_pair
    /\ uniform(seed).q[<<1, 1, 2, 2>>] = Frac(1, 2)
    /\ <<1, 1, 2, 2>> \notin distortion_keys(op.corpus)
    /\ Lookup(q, <<1, 1, 2, 2>>) = Zero

\* two calls of em_iter ended alike: both returned the same likelihood and
\* left the same tables, or both raised at the same sentence pair and left
\* tables that answer every lookup alike
SameOutcome(r1, r2) ==
    IF r1.raised = 0
    THEN r1 = r2
    ELSE /\ r1.raised = r2.raised
         /\ SameLookups(r1.t, r2.t)
         /\ SameLookups(r1.q, r2.q)

\* the step is a call of viterbi_alignment
Decoding == op'.name = "viterbi_alignment"

\* C10: viterbi_alignment changes no lookup of t or q; all it does to the
\* stored tables is to add absent keys with the value 0.0, so the sums of t
\* and q and the outcome of a later em_iter are what they were.
C10_DecodingKeepsModel ==
    [][Decoding =>
          /\ DOMAIN t \subseteq DOMAIN t'
          /\ DOMAIN q \subseteq DOMAIN q'
          /\ SameLookups(t', t)
          /\ SameLookups(q', q)
          /\ \A key \in DOMAIN t' \ DOMAIN t : t'[key] = Zero
          /\ \A key \in DOMAIN q' \ DOMAIN q : q'[key] = Zero
          /\ \A w \in {key[2] : key \in DOMAIN t'} :
                TotalOver(t', {key \in DOMAIN t' : key[2] = w})
                    = TotalOver(t, {key \in DOMAIN t : key[2] = w})
          /\ \A c \in {<<key[2], key[3], key[4]>> : key \in DOMAIN q'} :
                TotalOver(q', {<<j, c[1], c[2], c[3]>> : j \in 0..c[2] - 1})
                    = TotalOver(q, {<<j, c[1], c[2], c[3]>> : j \in 0..c[2] - 1})
          /\ (Len(iters) < MaxPasses /\ (t' # t \/ q' # q)) =>
                \A corpus \in Corpora :
                    LET before == em_iter(t, q, corpus)
                        after  == em_iter(t', q', corpus)
                    IN  SameOutcome(after, before)]_vars

\* a decoding of a pair the trained model has no distortion entries for: the
\* keys it read are now stored with 0.0
C10_Witness ==
    /\ op.name = "viterbi_alignment"
    /\ op.f = <<"la">>
    /\ op.e = <<"the">>
    /\ Len(iters) >= 1
    /\ <<1, 1, 2, 2>> \in DOMAIN q
    /\ q[<<1, 1, 2, 2>>] = Zero
    /\ \E key \in DOMAIN q : q[key] # Zero

====
